---------------------------- MODULE Spec2Model ----------------------------
(***************************************************************************)
(* Model of src/bot.py: the Trello webhook endpoint of the Discord bot.    *)
(*                                                                         *)
(* Representation of Python values:                                        *)
(*   - an optional value (None or v) is <<>> or <<v>>;                      *)
(*   - header values, secrets, digests and request bodies are sequences of *)
(*     code points (naturals); a character above 127 is non-ASCII;         *)
(*   - names and titles are TLA+ strings; a comment text is a sequence of  *)
(*     one-character strings, so that slicing and len are computed;        *)
(*   - a dict is a function whose domain is the set of its keys;           *)
(*   - the result of a call is [ret |-> v] or [exc |-> name].              *)
(***************************************************************************)
EXTENDS Naturals, Integers, Sequences, FiniteSets, TLC

VARIABLES
    TRELLO_WEBHOOK_SECRET, \* module configuration, read once at import
    req,       \* req[r]: the request (headers, body) handled by task r
    pc,        \* pc[r]: where task r of handle_webhook is suspended
    data,      \* data[r]: the local `data` of handle_webhook
    pending,   \* pending[r]: the embed handed to channel.send, awaiting its result
    status,    \* status[r]: the status of the response returned, <<>> before
    steps,     \* steps[r]: the stages of the pipeline task r has run
    sends,     \* sends[r]: how many times channel.send was invoked
    delivered, \* delivered[r]: the embeds the channel accepted
    outcome,   \* outcome[r]: how the delivery attempt of task r ended
    log,       \* log[r]: the logger.error lines task r wrote
    call       \* a direct call of one method: its arguments and result

vars == <<TRELLO_WEBHOOK_SECRET, req, pc, data, pending, status, steps,
          sends, delivered, outcome, log, call>>

reqVars == <<req, pc, data, pending, status, steps, sends, delivered,
             outcome, log>>

(***************************************************************************)
(* Bounds of the model.                                                    *)
(***************************************************************************)
NReq == 2

Pad == 2

Requests == 1..NReq

(***************************************************************************)
(* Python values.                                                          *)
(***************************************************************************)
None == <<>>

Some(v) == <<v>>

\* `not x` for an optional string: None and "" are falsy
Falsy(x) == x = None \/ x[1] = <<>>

Return(v) == [ret |-> v]

Raise(e) == [exc |-> e]

Raised(x) == "exc" \in DOMAIN x

\* d.get(k, default)
Get(d, k, default) == IF k \in DOMAIN d THEN d[k] ELSE default

EmptyDict == [k \in {} |-> TRUE]

(***************************************************************************)
(* hmac.new(key, body, hashlib.sha1).hexdigest(): a keyed digest of the    *)
(* raw body, written as lower-case hexadecimal digits.  SHA-1 itself is    *)
(* replaced by a one-byte keyed checksum; what the verifier relies on is   *)
(* kept: the digest is a function of (key, body), and it is ASCII.         *)
(***************************************************************************)
RECURSIVE WeightedSum(_, _)
WeightedSum(bytes, w) ==
    IF bytes = <<>> THEN 0
    ELSE w * Head(bytes) + WeightedSum(Tail(bytes), w + 2)

HexDigit(n) == IF n < 10 THEN 48 + n ELSE 87 + n

hmacHex(key, body) ==
    LET d == (WeightedSum(key, 3) * 7 + WeightedSum(body, 1)) % 256
    IN  <<HexDigit(d \div 16), HexDigit(d % 16)>>

IsAscii(s) == \A i \in 1..Len(s) : s[i] < 128

\* hmac.compare_digest(a, b) on two str: TypeError unless both are ASCII
compare_digest(a, b) ==
    IF ~IsAscii(a) \/ ~IsAscii(b) THEN Raise("TypeError") ELSE Return(a = b)

\* request.headers.get(name)
HeaderGet(headers, name) ==
    IF name \in DOMAIN headers THEN Some(headers[name]) ELSE None

(***************************************************************************)
(* TrelloWebhookHandler.verify_webhook_signature                           *)
(***************************************************************************)
\* the verification gets as far as `await request.read()`
AwaitsRead(request) ==
    /\ ~Falsy(TRELLO_WEBHOOK_SECRET)
    /\ ~Falsy(HeaderGet(request.headers, "X-Trello-Webhook"))

verify_webhook_signature(request) ==
    IF Falsy(TRELLO_WEBHOOK_SECRET) THEN Return(TRUE)
    ELSE LET signature == HeaderGet(request.headers, "X-Trello-Webhook") IN
         IF Falsy(signature) THEN Return(FALSE)
         ELSE LET body == request.body.raw
                  expected_signature == hmacHex(TRELLO_WEBHOOK_SECRET[1], body)
              IN  compare_digest(signature[1], expected_signature)

(***************************************************************************)
(* Inputs of the verifier.                                                 *)
(***************************************************************************)
Key1 == <<107, 49>>

Key2 == <<115>>

Raw1 == <<123, 125>>

Raw2 == <<123, 34, 97, 34, 58, 49, 125>>

RawBodies == {Raw1, Raw2}

Secrets == {None, Some(<<>>), Some(Key1), Some(Key2)}

\* empty, too short, too long, not hexadecimal, non-ASCII, and the digests
SignatureValues ==
    {<<>>, <<52>>, <<52, 102, 48>>, <<122, 122>>, <<233>>, <<52, 233>>}
        \cup {hmacHex(k, b) : k \in {Key1, Key2}, b \in RawBodies}

NoHeaders == [h \in {} |-> <<>>]

Headers == {NoHeaders} \cup
           {[h \in {"X-Trello-Webhook"} |-> g] : g \in SignatureValues}

Body(raw, syntax, obj) == [raw |-> raw, syntax |-> syntax, obj |-> obj]

VerifyRequests ==
    {[headers |-> h, body |-> Body(b, "object", EmptyDict)] :
        h \in Headers, b \in RawBodies}

(***************************************************************************)
(* TrelloWebhookHandler.create_embed                                       *)
(*                                                                         *)
(* A date string is the sequence of its parts, <<date, "T", time, zone>>,  *)
(* so that str.replace and datetime.fromisoformat are computed on it.      *)
(* The emoji that starts each title is left out of the title strings.      *)
(***************************************************************************)
TruncateAt == 1000

Ellipsis == <<".", ".", ".">>

\* d.get(k): None when the key is absent
GetOpt(d, k) == IF k \in DOMAIN d THEN Some(d[k]) ELSE None

\* how an f-string prints an optional string
Str(x) == IF x = None THEN "None" ELSE x[1]

\* date.replace('Z', '+00:00')
ReplaceZ(date) ==
    [i \in 1..Len(date) |-> IF date[i] = "Z" THEN "+00:00" ELSE date[i]]

DateParts == {"2024-05-01"}

TimeParts == {"12:30:00.000"}

\* datetime.fromisoformat(s): a date, or a date, "T", a time and an optional
\* UTC offset; anything else (the empty string too) is a ValueError
fromisoformat(s) ==
    IF /\ Len(s) \in {1, 3, 4}
       /\ s[1] \in DateParts
       /\ Len(s) >= 3 => s[2] = "T" /\ s[3] \in TimeParts
       /\ Len(s) = 4 => s[4] = "+00:00"
    THEN Return([date |-> s[1],
                 time |-> IF Len(s) >= 3 THEN s[3] ELSE "00:00:00",
                 utcoffset |-> IF Len(s) = 4 THEN Some(s[4]) ELSE None])
    ELSE Raise("ValueError")

\* discord.Embed(title=, description=, color=, timestamp=)
Embed(title, description, color, timestamp) ==
    [title |-> title, description |-> description, color |-> color,
     timestamp |-> timestamp, fields |-> <<>>]

\* embed.add_field(name=, value=, inline=)
add_field(embed, name, value, inline) ==
    [embed EXCEPT !.fields =
        Append(@, [name |-> name, value |-> value, inline |-> inline])]

\* f"**{card.get('name', 'Unknown')}**"
CardTitle(card) == "**" \o Get(card, "name", "Unknown") \o "**"

\* a variant that also truncates a text of exactly 1000 characters
CommentValue_ge(text) ==
    IF Len(text) >= TruncateAt
    THEN SubSeq(text, 1, TruncateAt) \o Ellipsis
    ELSE text

\* text[:1000] + "..." if len(text) > 1000 else text
CommentValue(text) ==
    IF Len(text) > TruncateAt
    THEN SubSeq(text, 1, TruncateAt) \o Ellipsis
    ELSE text

\* a variant whose three tests are an if/elif chain
UpdateCardFields_elif(embed, old_data, card, member) ==
    LET e1 == IF "name" \in DOMAIN old_data
              THEN add_field(embed, "Name Changed",
                       "From: " \o old_data["name"] \o "\nTo: "
                           \o Str(GetOpt(card, "name")), FALSE)
              ELSE IF "desc" \in DOMAIN old_data
              THEN add_field(embed, "Description Updated",
                             "Description was modified", FALSE)
              ELSE IF "pos" \in DOMAIN old_data
              THEN add_field(embed, "Position Changed", "Card was moved", FALSE)
              ELSE embed
    IN  add_field(e1, "Updated by", Get(member, "fullName", "Unknown"), TRUE)

\* the three `if ... in old_data` and the "Updated by" field of updateCard
UpdateCardFields(embed, old_data, card, member) ==
    LET e1 == IF "name" \in DOMAIN old_data
              THEN add_field(embed, "Name Changed",
                       "From: " \o old_data["name"] \o "\nTo: "
                           \o Str(GetOpt(card, "name")), FALSE)
              ELSE embed
        e2 == IF "desc" \in DOMAIN old_data
              THEN add_field(e1, "Description Updated",
                             "Description was modified", FALSE)
              ELSE e1
        e3 == IF "pos" \in DOMAIN old_data
              THEN add_field(e2, "Position Changed", "Card was moved", FALSE)
              ELSE e2
    IN  add_field(e3, "Updated by", Get(member, "fullName", "Unknown"), TRUE)

create_embed(action) ==
    LET action_type == GetOpt(action, "type")
        member == Get(action, "memberCreator", EmptyDict)
        date == Get(action, "date", <<>>)
        dat == Get(action, "data", EmptyDict)
        card == Get(dat, "card", EmptyDict)
        \* evaluated as an argument of discord.Embed(...) in every branch
        timestamp == fromisoformat(ReplaceZ(date))
    IN
    IF Raised(timestamp) THEN timestamp
    ELSE IF action_type = Some("createCard") THEN
        LET list_info == Get(dat, "list", EmptyDict)
            e0 == Embed("New Card Created", CardTitle(card), 65280,
                        timestamp.ret)
            e1 == add_field(e0, "List", Get(list_info, "name", "Unknown"), TRUE)
        IN  Return(add_field(e1, "Creator",
                             Get(member, "fullName", "Unknown"), TRUE))
    ELSE IF action_type = Some("updateCard") THEN
        LET old_data == Get(dat, "old", EmptyDict)
            e0 == Embed("Card Updated", CardTitle(card), 16755200,
                        timestamp.ret)
        IN  Return(UpdateCardFields(e0, old_data, card, member))
    ELSE IF action_type = Some("deleteCard") THEN
        LET e0 == Embed("Card Deleted", CardTitle(card), 16711680,
                        timestamp.ret)
        IN  Return(add_field(e0, "Deleted by",
                             Get(member, "fullName", "Unknown"), TRUE))
    ELSE IF action_type = Some("commentCard") THEN
        LET text == Get(dat, "text", <<>>)
            e0 == Embed("New Comment", CardTitle(card), 39423, timestamp.ret)
            e1 == add_field(e0, "Comment", CommentValue(text), FALSE)
        IN  Return(add_field(e1, "Comment by",
                             Get(member, "fullName", "Unknown"), TRUE))
    ELSE
        LET e0 == Embed("Trello Update", "Action: " \o Str(action_type),
                        6710886, timestamp.ret)
        IN  Return(add_field(e0, "User",
                             Get(member, "fullName", "Unknown"), TRUE))

(***************************************************************************)
(* Inputs of create_embed: action records with optional parts absent.      *)
(***************************************************************************)
\* a dict with the key k absent, or bound to one of the values vs
Opt(k, vs) == {EmptyDict} \cup {k :> v : v \in vs}

\* a text of n characters
TextOf(n) == [i \in 1..n |-> IF i % 2 = 1 THEN "a" ELSE "b"]

TextLengths ==
    {0, 1, TruncateAt + 500}
        \cup {n \in 0..(TruncateAt + Pad) : n + Pad >= TruncateAt}

ValidDates == {<<"2024-05-01", "T", "12:30:00.000", "Z">>,
               <<"2024-05-01", "T", "12:30:00.000", "+00:00">>}

BadDates == {<<>>, <<"yesterday">>}

Members == Opt("memberCreator", {EmptyDict, "fullName" :> "Ann"})

Cards == Opt("card", {EmptyDict, "name" :> "Sprint Plan"})

Lists == Opt("list", {EmptyDict, "name" :> "Backlog"})

Olds ==
    Opt("old", {a @@ b @@ c : a \in Opt("name", {"Draft"}),
                              b \in Opt("desc", {"old words"}),
                              c \in Opt("pos", {"16384"})})

Texts == Opt("text", {TextOf(n) : n \in TextLengths})

\* the data sub-record, by action type
DataOf(type) ==
    Opt("data",
        IF type = Some("createCard") THEN {c @@ l : c \in Cards, l \in Lists}
        ELSE IF type = Some("updateCard") THEN {c @@ o : c \in Cards, o \in Olds}
        ELSE IF type = Some("commentCard") THEN {c @@ t : c \in Cards, t \in Texts}
        ELSE Cards)

ActionTypes == {None, Some("createCard"), Some("updateCard"),
                Some("deleteCard"), Some("commentCard"), Some("updateBoard")}

TypeKey(type) == IF type = None THEN EmptyDict ELSE "type" :> type[1]

ActionsWith(dates) ==
    UNION {{TypeKey(t) @@ d @@ m @@ x :
                d \in dates, m \in Members, x \in DataOf(t)} :
           t \in ActionTypes}

Actions == ActionsWith(Opt("date", ValidDates \cup BadDates))

(***************************************************************************)
(* TrelloWebhookHandler.handle_webhook and the coroutines it awaits.       *)
(* One task per request; a task is suspended where the code awaits I/O:    *)
(* request.read(), request.json() and channel.send(); between two of these *)
(* it runs without interruption (one event loop, one thread).              *)
(***************************************************************************)
\* a variant that answers an empty document for a body it cannot parse
request_json_lenient(request) ==
    Return([isdict |-> request.body.syntax # "array",
            obj |-> request.body.obj])

\* request.json(): json.loads of the body; the decoded document is an
\* object (a dict) or another JSON value
request_json(request) ==
    IF request.body.syntax = "malformed" THEN Raise("JSONDecodeError")
    ELSE Return([isdict |-> request.body.syntax = "object",
                 obj |-> request.body.obj])

\* a variant that notifies for every action that has a type
IsActionable_any(action_type) == action_type # None

\* action_type in ['createCard', 'updateCard', 'deleteCard', 'commentCard']
IsActionable(action_type) ==
    /\ action_type # None
    /\ action_type[1] \in {"createCard", "updateCard", "deleteCard",
                           "commentCard"}

\* web.Response(status=code): the task is over
Respond(r, code) ==
    /\ status' = [status EXCEPT ![r] = Some(code)]
    /\ pc' = [pc EXCEPT ![r] = "done"]

\* logger.error(line)
LogError(r, line) == log' = [log EXCEPT ![r] = Append(@, line)]

Ran(r, stages) == steps' = [steps EXCEPT ![r] = @ \cup stages]

\* the `except Exception` of handle_webhook
HandlerFails(r) ==
    /\ LogError(r, "Error handling webhook")
    /\ Respond(r, 500)

\* what handle_webhook does with the verifier's result
Verified(r, v) ==
    IF Raised(v) THEN HandlerFails(r)
    ELSE IF ~v.ret THEN Respond(r, 401) /\ UNCHANGED log
    ELSE pc' = [pc EXCEPT ![r] = "json"] /\ UNCHANGED <<status, log>>

\* a POST /webhook request reaches the handler, which runs
\* verify_webhook_signature up to `await request.read()`, or to its return
Arrive(r, request) ==
    /\ pc[r] = "idle"
    /\ req' = [req EXCEPT ![r] = Some(request)]
    /\ Ran(r, {"verify"})
    /\ IF AwaitsRead(request)
       THEN pc' = [pc EXCEPT ![r] = "read"] /\ UNCHANGED <<status, log>>
       ELSE Verified(r, verify_webhook_signature(request))
    /\ UNCHANGED <<TRELLO_WEBHOOK_SECRET, data, pending, sends, delivered,
                   outcome, call>>

\* request.read() returns: the digest is computed and compared
ReadBody(r) ==
    /\ pc[r] = "read"
    /\ Verified(r, verify_webhook_signature(req[r][1]))
    /\ UNCHANGED <<TRELLO_WEBHOOK_SECRET, req, data, pending, steps, sends,
                   delivered, outcome, call>>

\* process_trello_event(data) and send_discord_message(action) up to
\* `await channel.send`; ran: the stages the task has run in this step
process_trello_event(r, d, ran) ==
    IF ~d.isdict
    THEN \* data.get raises; caught by process_trello_event
         /\ Ran(r, ran)
         /\ LogError(r, "Error processing Trello event")
         /\ Respond(r, 200)
         /\ UNCHANGED <<pending, sends, outcome>>
    ELSE LET action == Get(d.obj, "action", EmptyDict)
             action_type == GetOpt(action, "type")
         IN
         IF ~IsActionable(action_type)
         THEN /\ Ran(r, ran \cup {"classify"})
              /\ Respond(r, 200)
              /\ UNCHANGED <<log, pending, sends, outcome>>
         ELSE \E found \in BOOLEAN : \* bot.get_channel(DISCORD_CHANNEL_ID)
              IF ~found
              THEN /\ Ran(r, ran \cup {"classify"})
                   /\ LogError(r, "Channel not found")
                   /\ outcome' = [outcome EXCEPT ![r] = "no_channel"]
                   /\ Respond(r, 200)
                   /\ UNCHANGED <<pending, sends>>
              ELSE LET embed == create_embed(action) IN
                   /\ Ran(r, ran \cup {"classify", "format"})
                   /\ IF Raised(embed)
                      THEN /\ LogError(r, "Error sending Discord message")
                           /\ outcome' = [outcome EXCEPT ![r] = "format_raised"]
                           /\ Respond(r, 200)
                           /\ UNCHANGED <<pending, sends>>
                      ELSE /\ pending' = [pending EXCEPT ![r] = Some(embed.ret)]
                           /\ sends' = [sends EXCEPT ![r] = @ + 1]
                           /\ pc' = [pc EXCEPT ![r] = "send"]
                           /\ UNCHANGED <<status, log, outcome>>

\* a variant that keeps the request on the handler object, shared by all
\* tasks: the body decoded is the one of any request received so far
DecodeJson_shared(r) ==
    /\ pc[r] = "json"
    /\ \E q \in Requests :
        /\ req[q] # None
        /\ LET d == request_json(req[q][1]) IN
           IF Raised(d)
           THEN /\ Ran(r, {"decode"})
                /\ HandlerFails(r)
                /\ UNCHANGED <<data, pending, sends, outcome>>
           ELSE /\ data' = [data EXCEPT ![r] = Some(d.ret)]
                /\ process_trello_event(r, d.ret, {"decode"})
    /\ UNCHANGED <<TRELLO_WEBHOOK_SECRET, req, delivered, call>>

\* request.json() returns or raises: data = await request.json(), then
\* process_trello_event(data), which runs with no suspension up to
\* `await channel.send`
DecodeJson(r) ==
    /\ pc[r] = "json"
    /\ LET d == request_json(req[r][1]) IN
       IF Raised(d)
       THEN /\ Ran(r, {"decode"})
            /\ HandlerFails(r)
            /\ UNCHANGED <<data, pending, sends, outcome>>
       ELSE /\ data' = [data EXCEPT ![r] = Some(d.ret)]
            /\ process_trello_event(r, d.ret, {"decode"})
    /\ UNCHANGED <<TRELLO_WEBHOOK_SECRET, req, delivered, call>>

\* a variant in which a failure of channel.send is caught by no handler
\* below handle_webhook
SendReturns_uncaught(r) ==
    /\ pc[r] = "send"
    /\ \E ok \in BOOLEAN :
        IF ok
        THEN /\ delivered' = [delivered EXCEPT ![r] = Append(@, pending[r][1])]
             /\ outcome' = [outcome EXCEPT ![r] = "delivered"]
             /\ UNCHANGED log
             /\ Respond(r, 200)
        ELSE /\ outcome' = [outcome EXCEPT ![r] = "send_raised"]
             /\ UNCHANGED delivered
             /\ HandlerFails(r)
    /\ pending' = [pending EXCEPT ![r] = None]
    /\ UNCHANGED <<TRELLO_WEBHOOK_SECRET, req, data, steps, sends, call>>

\* channel.send(embed=embed) returns, or raises into the `except Exception`
\* of send_discord_message; then handle_webhook returns "OK"
SendReturns(r) ==
    /\ pc[r] = "send"
    /\ \E ok \in BOOLEAN :
        IF ok
        THEN /\ delivered' = [delivered EXCEPT ![r] = Append(@, pending[r][1])]
             /\ outcome' = [outcome EXCEPT ![r] = "delivered"]
             /\ UNCHANGED log
        ELSE /\ LogError(r, "Error sending Discord message")
             /\ outcome' = [outcome EXCEPT ![r] = "send_raised"]
             /\ UNCHANGED delivered
    /\ pending' = [pending EXCEPT ![r] = None]
    /\ Respond(r, 200)
    /\ UNCHANGED <<TRELLO_WEBHOOK_SECRET, req, data, steps, sends, call>>

\* handle_webhook run from start to end with no other task in between:
\* the response status and the embeds delivered, given whether get_channel
\* finds the channel and whether channel.send succeeds
HandleAlone(request, found, sendOk) ==
    LET v == verify_webhook_signature(request)
        d == request_json(request)
        action == Get(d.ret.obj, "action", EmptyDict)
        embed == create_embed(action)
        Result(code, embeds) == [status |-> code, delivered |-> embeds]
    IN  IF Raised(v) THEN Result(500, <<>>)
        ELSE IF ~v.ret THEN Result(401, <<>>)
        ELSE IF Raised(d) THEN Result(500, <<>>)
        ELSE IF ~d.ret.isdict THEN Result(200, <<>>)
        ELSE IF ~IsActionable(GetOpt(action, "type")) THEN Result(200, <<>>)
        ELSE IF ~found \/ Raised(embed) \/ ~sendOk THEN Result(200, <<>>)
        ELSE Result(200, <<embed.ret>>)

(***************************************************************************)
(* The requests the endpoint is given.                                     *)
(***************************************************************************)
Scenario1 ==
    ("type" :> "createCard")
        @@ ("date" :> <<"2024-05-01", "T", "12:30:00.000", "Z">>)
        @@ ("memberCreator" :> ("fullName" :> "Ann"))
        @@ ("data" :> (("card" :> ("name" :> "Sprint Plan"))
                          @@ ("list" :> ("name" :> "Backlog"))))

Sparse == ("type" :> "createCard") @@ ("data" :> EmptyDict)

BoardRenamed ==
    ("type" :> "updateBoard")
        @@ ("date" :> <<"2024-05-01", "T", "12:30:00.000", "Z">>)

EndpointBodies ==
    {Body(<<123>>, "malformed", EmptyDict),
     Body(<<91, 93>>, "array", EmptyDict),
     Body(<<123, 125>>, "object", EmptyDict),
     Body(<<123, 98, 125>>, "object", "action" :> BoardRenamed),
     Body(<<123, 99, 125>>, "object", "action" :> Scenario1),
     Body(<<123, 115, 125>>, "object", "action" :> Sparse)}

\* no header, an empty one, the digest under Key1, another digest, non-ASCII
HeadersFor(body) ==
    {NoHeaders} \cup
    {[h \in {"X-Trello-Webhook"} |-> g] :
        g \in {<<>>, hmacHex(Key1, body.raw), hmacHex(Key2, body.raw), <<233>>}}

EndpointRequests ==
    UNION {{[headers |-> h, body |-> b] : h \in HeadersFor(b)} :
           b \in EndpointBodies}

EndpointSecrets == {None, Some(Key1)}

NoCall == [fn |-> "none"]

Idle ==
    /\ req = [r \in Requests |-> None]
    /\ pc = [r \in Requests |-> "idle"]
    /\ data = [r \in Requests |-> None]
    /\ pending = [r \in Requests |-> None]
    /\ status = [r \in Requests |-> None]
    /\ steps = [r \in Requests |-> {}]
    /\ sends = [r \in Requests |-> 0]
    /\ delivered = [r \in Requests |-> <<>>]
    /\ outcome = [r \in Requests |-> "none"]
    /\ log = [r \in Requests |-> <<>>]

Init ==
    /\ TRELLO_WEBHOOK_SECRET \in EndpointSecrets
    /\ Idle
    /\ call = NoCall

Next ==
    \E r \in Requests :
        \/ \E request \in EndpointRequests : Arrive(r, request)
        \/ ReadBody(r)
        \/ DecodeJson(r)
        \/ SendReturns(r)

Spec == Init /\ [][Next]_vars

(***************************************************************************)
(* Direct calls of verify_webhook_signature and of create_embed, on every  *)
(* input of the sets above.                                                *)
(***************************************************************************)
InitVerify ==
    /\ TRELLO_WEBHOOK_SECRET \in Secrets
    /\ Idle
    /\ call \in {[fn |-> "verify_webhook_signature", args |-> a, out |-> None] :
                    a \in VerifyRequests}

CallVerify ==
    /\ call.fn = "verify_webhook_signature"
    /\ call.out = None
    /\ call' = [call EXCEPT !.out = Some(verify_webhook_signature(call.args))]
    /\ UNCHANGED <<TRELLO_WEBHOOK_SECRET, reqVars>>

SpecVerify == InitVerify /\ [][CallVerify]_vars

InitEmbed ==
    /\ TRELLO_WEBHOOK_SECRET = None
    /\ Idle
    /\ call \in {[fn |-> "create_embed", args |-> a, out |-> None] :
                    a \in Actions}

CallCreateEmbed ==
    /\ call.fn = "create_embed"
    /\ call.out = None
    /\ call' = [call EXCEPT !.out = Some(create_embed(call.args))]
    /\ UNCHANGED <<TRELLO_WEBHOOK_SECRET, reqVars>>

SpecEmbed == InitEmbed /\ [][CallCreateEmbed]_vars

(***************************************************************************)
(* Properties of verify_webhook_signature (under SpecVerify).              *)
(***************************************************************************)
Called(fn) == call.fn = fn /\ call.out # None

SignatureHeader(request) == HeaderGet(request.headers, "X-Trello-Webhook")

\* C2: verify_webhook_signature is a total decision: true whenever no secret
\* is set; false when a non-empty secret is set and the header is absent;
\* and, when a non-empty secret is set and the header is present, true
\* exactly when the header equals hmacHex(body, secret), false otherwise.
C2_TotalDecision ==
    Called("verify_webhook_signature") =>
        LET S == TRELLO_WEBHOOK_SECRET
            G == SignatureHeader(call.args)
            B == call.args.body.raw
            out == call.out[1]
        IN  /\ S = None => out = Return(TRUE)
            /\ (S # None /\ S[1] # <<>> /\ G = None) => out = Return(FALSE)
            /\ (S # None /\ S[1] # <<>> /\ G # None) =>
                    out = Return(G[1] = hmacHex(S[1], B))

\* C8: signature verification never throws: whatever the body, the header
\* (absent, empty, of the wrong length, not hexadecimal, non-ASCII) and the
\* secret, it returns a boolean, and a header that is not the digest yields
\* false under a configured secret.
C8_NeverThrows ==
    Called("verify_webhook_signature") =>
        LET S == TRELLO_WEBHOOK_SECRET
            G == SignatureHeader(call.args)
            out == call.out[1]
        IN  /\ ~Raised(out)
            /\ out.ret \in BOOLEAN
            /\ (/\ ~Falsy(S)
                /\ G # None
                /\ G[1] # hmacHex(S[1], call.args.body.raw)) => ~out.ret

(***************************************************************************)
(* Properties of create_embed (under SpecEmbed).                           *)
(***************************************************************************)
FieldNames(embed) == [i \in 1..Len(embed.fields) |-> embed.fields[i].name]

FieldValue(embed, name) ==
    LET i == CHOOSE j \in 1..Len(embed.fields) : embed.fields[j].name = name
    IN  embed.fields[i].value

HasField(embed, name) ==
    \E j \in 1..Len(embed.fields) : embed.fields[j].name = name

\* every part of the action that is present is well formed
WellFormedSparse(action) ==
    "date" \in DOMAIN action => action["date"] \in ValidDates

ArgType(action) == GetOpt(action, "type")

ArgData(action) == Get(action, "data", EmptyDict)

ArgCardName(action) ==
    Get(Get(ArgData(action), "card", EmptyDict), "name", "Unknown")

ArgMemberName(action) ==
    Get(Get(action, "memberCreator", EmptyDict), "fullName", "Unknown")

\* C6: create_embed never raises for a well-formed but sparse event: with
\* any subset of date, memberCreator, data, data.card, data.list, data.old
\* and data.text absent it returns a message, in which an absent name reads
\* "Unknown" and an absent text is the empty string.
C6_NeverRaises ==
    (Called("create_embed") /\ WellFormedSparse(call.args)) =>
        LET a == call.args
            out == call.out[1]
        IN  /\ ~Raised(out)
            /\ \A i \in 1..Len(out.ret.fields) :
                LET f == out.ret.fields[i] IN
                /\ f.name \in {"Creator", "Updated by", "Deleted by",
                               "Comment by", "User"}
                        => f.value = ArgMemberName(a)
                /\ f.name = "List" =>
                        f.value = Get(Get(ArgData(a), "list", EmptyDict),
                                      "name", "Unknown")
                /\ f.name = "Comment" /\ "text" \notin DOMAIN ArgData(a)
                        => f.value = <<>>
                /\ f.name = "Name Changed" =>
                        f.value = "From: " \o ArgData(a)["old"]["name"]
                                      \o "\nTo: " \o ArgCardName(a)
            /\ ArgType(a) \in {Some("createCard"), Some("updateCard"),
                               Some("deleteCard"), Some("commentCard")}
                    => out.ret.description = "**" \o ArgCardName(a) \o "**"

ExpectedUpdateNames(old) ==
    (IF "name" \in DOMAIN old THEN <<"Name Changed">> ELSE <<>>)
        \o (IF "desc" \in DOMAIN old THEN <<"Description Updated">> ELSE <<>>)
        \o (IF "pos" \in DOMAIN old THEN <<"Position Changed">> ELSE <<>>)
        \o <<"Updated by">>

\* C9: for an updateCard event with a parsable date the fields are, in this
\* order, "Name Changed" iff data.old has name, "Description Updated" iff it
\* has desc, "Position Changed" iff it has pos, then one "Updated by": the
\* number of keys of {name, desc, pos} in data.old, plus one, and none other.
C9_UpdateFields ==
    (/\ Called("create_embed")
     /\ ArgType(call.args) = Some("updateCard")
     /\ "date" \in DOMAIN call.args
     /\ call.args["date"] \in ValidDates) =>
        LET old == Get(ArgData(call.args), "old", EmptyDict)
            out == call.out[1]
        IN  /\ ~Raised(out)
            /\ FieldNames(out.ret) = ExpectedUpdateNames(old)
            /\ Len(out.ret.fields) =
                  Cardinality(DOMAIN old \cap {"name", "desc", "pos"}) + 1

C9_Witness ==
    /\ Called("create_embed")
    /\ ArgType(call.args) = Some("updateCard")
    /\ "date" \in DOMAIN call.args
    /\ call.args["date"] \in ValidDates
    /\ DOMAIN Get(ArgData(call.args), "old", EmptyDict) = {"name", "desc", "pos"}
    /\ ~Raised(call.out[1])
    /\ Len(call.out[1].ret.fields) = 4

(***************************************************************************)
(* Properties of the endpoint (under Spec).                                *)
(***************************************************************************)
Done(r) == pc[r] = "done"

Arrived(r) == req[r] # None

\* a secret is configured and the header is absent or is not the digest
SignatureFails(request) ==
    /\ ~Falsy(TRELLO_WEBHOOK_SECRET)
    /\ \/ SignatureHeader(request) = None
       \/ SignatureHeader(request)[1] #
              hmacHex(TRELLO_WEBHOOK_SECRET[1], request.body.raw)

\* no secret is configured, or the header is the digest
SignaturePasses(request) ==
    \/ Falsy(TRELLO_WEBHOOK_SECRET)
    \/ /\ SignatureHeader(request) # None
       /\ SignatureHeader(request)[1] =
              hmacHex(TRELLO_WEBHOOK_SECRET[1], request.body.raw)

\* the decoded body is an object whose action.type is one of the four kinds
ActionableEvent(request) ==
    /\ request.body.syntax = "object"
    /\ "action" \in DOMAIN request.body.obj
    /\ "type" \in DOMAIN request.body.obj["action"]
    /\ request.body.obj["action"]["type"] \in
           {"createCard", "updateCard", "deleteCard", "commentCard"}

\* C1: a request whose signature verification fails is answered 401, and
\* for it nothing is decoded, classified, formatted or sent, before or after
\* the response.
C1_FailedVerification ==
    \A r \in Requests :
        (Arrived(r) /\ SignatureFails(req[r][1])) =>
            /\ steps[r] \cap {"decode", "classify", "format"} = {}
            /\ sends[r] = 0
            /\ delivered[r] = <<>>
            /\ Done(r) => status[r] = Some(401)

\* C3: a request that passes verification and whose body is not parsable
\* JSON is answered 500; it is neither classified nor formatted, and the
\* channel sender is never invoked for it.
C3_MalformedJson ==
    \A r \in Requests :
        (/\ Arrived(r)
         /\ SignaturePasses(req[r][1])
         /\ req[r][1].body.syntax = "malformed") =>
            /\ steps[r] \cap {"classify", "format"} = {}
            /\ sends[r] = 0
            /\ delivered[r] = <<>>
            /\ pc[r] # "send"
            /\ Done(r) => status[r] = Some(500)

C3_Witness ==
    \E r \in Requests :
        /\ Done(r)
        /\ ~Falsy(TRELLO_WEBHOOK_SECRET)
        /\ SignaturePasses(req[r][1])
        /\ req[r][1].body.syntax = "malformed"
        /\ "decode" \in steps[r]
        /\ status[r] = Some(500)

\* C4: in one request channel.send is invoked at most once; it is invoked
\* only if verification passed, the body decoded and action.type is one of
\* createCard, updateCard, deleteCard, commentCard; a verified, decoded
\* request with any other or no action.type sends nothing and is answered 200.
C4_SendAtMostOnce ==
    \A r \in Requests :
        /\ sends[r] <= 1
        /\ Len(delivered[r]) <= sends[r]
        /\ sends[r] = 1 =>
            /\ SignaturePasses(req[r][1])
            /\ ActionableEvent(req[r][1])
        /\ (/\ Arrived(r)
            /\ SignaturePasses(req[r][1])
            /\ req[r][1].body.syntax # "malformed"
            /\ ~ActionableEvent(req[r][1])) =>
                /\ sends[r] = 0
                /\ "format" \notin steps[r]
                /\ Done(r) => status[r] = Some(200)

C4_Witness ==
    \E r, q \in Requests :
        /\ Done(r)
        /\ ~Falsy(TRELLO_WEBHOOK_SECRET)
        /\ SignaturePasses(req[r][1])
        /\ req[r][1].body.obj = "action" :> BoardRenamed
        /\ sends[r] = 0
        /\ status[r] = Some(200)
        /\ Done(q)
        /\ sends[q] = 1
        /\ outcome[q] = "send_raised"

\* C5: a request that passes verification and decodes to an actionable
\* event is answered 200 whether the send succeeds, the send raises, or the
\* channel is not found; a delivery failure is logged and never reaches the
\* handler's own exception clause.
C5_DeliveryOutcome ==
    \A r \in Requests :
        (/\ Done(r)
         /\ SignaturePasses(req[r][1])
         /\ ActionableEvent(req[r][1])) =>
            /\ status[r] = Some(200)
            /\ outcome[r] \in {"delivered", "send_raised", "no_channel",
                               "format_raised"}
            /\ outcome[r] = "delivered" => log[r] = <<>>
            /\ outcome[r] = "send_raised" =>
                   log[r] = <<"Error sending Discord message">>
            /\ outcome[r] = "no_channel" => log[r] = <<"Channel not found">>
            /\ \A i \in 1..Len(log[r]) : log[r][i] # "Error handling webhook"

C5_Witness ==
    \E r, q \in Requests :
        /\ Done(r)
        /\ ActionableEvent(req[r][1])
        /\ outcome[r] = "send_raised"
        /\ status[r] = Some(200)
        /\ Done(q)
        /\ ActionableEvent(req[q][1])
        /\ outcome[q] = "no_channel"
        /\ status[q] = Some(200)

\* C10: when requests are handled concurrently and interleave where they
\* await, each request's response status and the message it delivers (or
\* none) are those of handling it alone: they depend only on its own headers
\* and body, the configuration and its own delivery outcome.
C10_Isolation ==
    \A r \in Requests :
        /\ Done(r) =>
            [status |-> status[r][1], delivered |-> delivered[r]] =
                HandleAlone(req[r][1], outcome[r] # "no_channel",
                            outcome[r] # "send_raised")
        /\ data[r] # None => Return(data[r][1]) = request_json(req[r][1])
        /\ pending[r] # None =>
               Return(pending[r][1]) =
                   create_embed(Get(req[r][1].body.obj, "action", EmptyDict))

C10_Witness ==
    \E r, q \in Requests :
        /\ r # q
        /\ Done(r)
        /\ delivered[r] # <<>>
        /\ status[r] = Some(200)
        /\ pc[q] \in {"read", "json", "send"}
        /\ req[q][1].body # req[r][1].body

============================================================================
